---------------------------- MODULE Spec2Model ----------------------------
(***************************************************************************)
(* Model of app/lifecycle/updater.go (update check, staging download,      *)
(* background checker loop, installer hand-off) and of                     *)
(* app/tray/wintray/eventloop.go (message pump, wndProc, Quit).            *)
(*                                                                         *)
(* Strings that the code parses or escapes (URLs, file names) are          *)
(* sequences of one-character strings, so that url.Parse and               *)
(* url.PathEscape are computed and not assumed.                            *)
(***************************************************************************)
EXTENDS Integers, Sequences, FiniteSets, TLC

VARIABLES
    UpdateDownloaded,   \* updater.go:24, the process-wide flag
    stageDir,           \* state of the directory UpdateStageDir
    files,              \* files under UpdateStageDir: name -> content
    pc,                 \* position of each background checker goroutine
    ctxDone,            \* ctx.Done() of the context given to each checker
    available,          \* local `available` of the loop body
    resp,               \* local `resp` of the loop body
    httpResp,           \* the HTTP response the last check of the iteration got
    err,                \* local `err` of the `if available` block
    dl,                 \* what the DownloadNewRelease call of the iteration did
    hadFailure,         \* the loop logged and absorbed an error at some point
    embPc,              \* position of the embedder's DoUpgrade caller
    up,                 \* what the last DoUpgrade call did
    procExited,         \* os.Exit(0) was called
    crashed,            \* the process aborted on a nil dereference
    pump,               \* position of the thread that runs nativeLoop
    cur,                \* the message whose handler waits for or holds muNID
    inClose,            \* that handler runs inside DestroyWindow, under WM_CLOSE
    window,             \* the tray window wt.window
    registered,         \* the window class t.wcex is registered
    nid,                \* t.nid and its registration with the shell
    muNID,              \* who holds t.muNID
    pendingUpdate,      \* t.pendingUpdate
    quitPosted,         \* PostQuitMessage was called: WM_QUIT is due
    closePending,       \* WM_CLOSE messages posted by quit() and not yet handled
    closePosts,         \* calls of PostMessage(wt.window, WM_CLOSE) by quit()
    handled,            \* the last message wndProc handled, and what it sent
    quitPc,             \* position of each caller of Quit()
    onceDone,           \* quitOnce: the done flag of sync.Once
    onceM               \* quitOnce: the holder of the mutex of sync.Once

updVars == <<UpdateDownloaded, stageDir, files, pc, ctxDone, available, resp,
             httpResp, err, dl, hadFailure, embPc, up, procExited, crashed>>

trayVars == <<pump, cur, inClose, window, registered, nid, muNID,
              pendingUpdate, quitPosted, closePending, closePosts, handled,
              quitPc, onceDone, onceM>>

vars == <<updVars, trayVars>>

----------------------------------------------------------------------------
(* Bounds *)

MaxSched == 2      \* calls of StartBackgroundUpdaterChecker that are modelled
MaxCallers == 2    \* goroutines that call Quit()

Scheds == 1..MaxSched
Callers == 1..MaxCallers

----------------------------------------------------------------------------
(* Strings as character sequences; net/url as used at updater.go:65-69 *)

Letters == {"s", "h", "v", "i", "z", "F"}
Digits  == {"2", "5"}
HexDigits == {"2", "5", "F"}

\* index of the first occurrence of character c in s at or after k, 0 if none
RECURSIVE IndexFrom(_, _, _)
IndexFrom(s, c, k) ==
    IF k > Len(s) THEN 0
    ELSE IF s[k] = c THEN k
    ELSE IndexFrom(s, c, k + 1)

HasPrefix(s, p) == Len(s) >= Len(p) /\ SubSeq(s, 1, Len(p)) = p

\* net/url getScheme: scheme, rest and error of a raw URL
RECURSIVE getSchemeAt(_, _)
getSchemeAt(rawURL, k) ==
    IF k > Len(rawURL)
    THEN [scheme |-> <<>>, rest |-> rawURL, err |-> FALSE]
    ELSE LET c == rawURL[k] IN
         IF c \in Letters THEN getSchemeAt(rawURL, k + 1)
         ELSE IF c \in Digits
         THEN IF k = 1
              THEN [scheme |-> <<>>, rest |-> rawURL, err |-> FALSE]
              ELSE getSchemeAt(rawURL, k + 1)
         ELSE IF c = ":"
         THEN IF k = 1
              THEN [scheme |-> <<>>, rest |-> <<>>, err |-> TRUE]
              ELSE [scheme |-> SubSeq(rawURL, 1, k - 1),
                    rest |-> SubSeq(rawURL, k + 1, Len(rawURL)),
                    err |-> FALSE]
         ELSE [scheme |-> <<>>, rest |-> rawURL, err |-> FALSE]

getScheme(rawURL) == getSchemeAt(rawURL, 1)

\* the byte a %XX triplet stands for; "~" is a byte outside the alphabet
unhex(a, b) ==
    IF a = "2" /\ b = "F" THEN "/"
    ELSE IF a = "2" /\ b = "5" THEN "%"
    ELSE "~"

\* net/url unescape in path mode: [err, s]
RECURSIVE unescape(_)
unescape(s) ==
    IF s = <<>> THEN [err |-> FALSE, s |-> <<>>]
    ELSE IF s[1] = "%"
    THEN IF Len(s) < 3 \/ s[2] \notin HexDigits \/ s[3] \notin HexDigits
         THEN [err |-> TRUE, s |-> <<>>]
         ELSE LET r == unescape(SubSeq(s, 4, Len(s))) IN
              [err |-> r.err, s |-> <<unhex(s[2], s[3])>> \o r.s]
    ELSE LET r == unescape(Tail(s)) IN
         [err |-> r.err, s |-> <<s[1]>> \o r.s]

ParseError == [err |-> TRUE, Scheme |-> <<>>, Host |-> <<>>, Path |-> <<>>]

\* url.Parse (url.parse with viaRequest = false): [err, Scheme, Host, Path]
Parse(rawURL) ==
    LET sch == getScheme(rawURL) IN
    IF sch.err THEN ParseError
    ELSE
    LET q    == IndexFrom(sch.rest, "?", 1)
        rest == IF q = 0 THEN sch.rest ELSE SubSeq(sch.rest, 1, q - 1)
    IN
    IF ~HasPrefix(rest, <<"/">>) /\ sch.scheme # <<>>
    THEN \* rootless path with a scheme: opaque, Path stays empty
         [err |-> FALSE, Scheme |-> sch.scheme, Host |-> <<>>, Path |-> <<>>]
    ELSE
    LET sl      == IndexFrom(rest, "/", 1)
        segment == IF sl = 0 THEN rest ELSE SubSeq(rest, 1, sl - 1)
    IN
    IF ~HasPrefix(rest, <<"/">>) /\ IndexFrom(segment, ":", 1) # 0
    THEN ParseError      \* first path segment in URL cannot contain colon
    ELSE
    LET hasAuth   == HasPrefix(rest, <<"/", "/">>)
        authority == SubSeq(rest, 3, Len(rest))
        a         == IndexFrom(authority, "/", 1)
        host      == IF ~hasAuth THEN <<>>
                     ELSE IF a = 0 THEN authority
                     ELSE SubSeq(authority, 1, a - 1)
        rawPath   == IF ~hasAuth THEN rest
                     ELSE IF a = 0 THEN <<>>
                     ELSE SubSeq(authority, a, Len(authority))
        p         == unescape(rawPath)
    IN
    IF p.err THEN ParseError
    ELSE [err |-> FALSE, Scheme |-> sch.scheme, Host |-> host, Path |-> p.s]

\* url.PathEscape: escapes what shouldEscape reports in path-segment mode
RECURSIVE PathEscape(_)
PathEscape(s) ==
    IF s = <<>> THEN <<>>
    ELSE LET c == s[1] IN
         (IF c = "/" THEN <<"%", "2", "F">>
          ELSE IF c = "%" THEN <<"%", "2", "5">>
          ELSE IF c = "?" THEN <<"%", "3", "F">>
          ELSE <<c>>) \o PathEscape(Tail(s))

----------------------------------------------------------------------------
(* Inputs: the URLs an update response can announce *)

URLFull    == <<"s", ":", "/", "/", "h", "/", "v", "/", "i">>
URLShort   == <<"s", ":", "/", "/", "h", "/", "z">>
URLQuery   == URLFull \o <<"?", "v">>
URLEscaped == <<"s", ":", "/", "/", "h", "/", "v", "%", "2", "F", "i">>
URLEmpty   == <<>>
URLRel     == <<"i">>
URLNoScheme == <<":", "i">>
URLBadEsc  == <<"s", ":", "/", "/", "h", "/", "%", "z">>

URLs == {URLFull, URLShort, URLQuery, URLEscaped, URLEmpty, URLRel,
         URLNoScheme, URLBadEsc}

\* url.Parse and url.PathEscape on these inputs, computed once
ParsedURL == [u \in URLs |-> Parse(u)]
EscapedPath == [p \in {ParsedURL[u].Path : u \in URLs} |-> PathEscape(p)]

\* http.Get sends a request only for an absolute URL with a host
CanGet(rawURL) ==
    /\ ~ParsedURL[rawURL].err
    /\ ParsedURL[rawURL].Scheme # <<>>
    /\ ParsedURL[rawURL].Host # <<>>


----------------------------------------------------------------------------
(* The staging directory *)

Installer == <<"i">>      \* the fixed installer file name under UpdateStageDir

\* the names DownloadNewRelease can compute, and the installer's
StageNames ==
    ({EscapedPath[ParsedURL[u].Path] : u \in {v \in URLs : ~ParsedURL[v].err}}
        \cup {Installer}) \ {<<>>}

NoFile   == "nofile"
Payloads == {"p1", "p2"}              \* bodies a download GET can return
Contents == {NoFile, "partial"} \cup Payloads

\* os.Stat followed by errors.Is(err, os.ErrNotExist); the name <<>> is
\* UpdateStageDir itself, which is what filepath.Join gives for an empty name
Stat(dir, fs, name) ==
    IF dir = "inaccessible" THEN "error"
    ELSE IF dir = "absent" THEN "notexist"
    ELSE IF name = <<>> THEN "ok"
    ELSE IF fs[name] = NoFile THEN "notexist"
    ELSE "ok"

\* what the file at a name holds, as an observer of the directory sees it
ContentAt(dir, fs, name) ==
    IF name = <<>> \/ dir = "absent" THEN NoFile ELSE fs[name]

----------------------------------------------------------------------------
(* The update-check response and encoding/json *)

UpdateResponse(u, v) == [UpdateURL |-> u, UpdateVersion |-> v]
ZeroUpdateResponse == UpdateResponse(<<>>, "")

Versions == {"2.0"}

\* a JSON member: absent, a string, or a value of another type
NoMember == [t |-> "missing"]
URLMembers == {NoMember, [t |-> "number"]}
                 \cup {[t |-> "string", s |-> u] : u \in URLs}
VersionMembers == {NoMember} \cup {[t |-> "string", s |-> v] : v \in Versions}

Body(k, u, v) == [kind |-> k, url |-> u, version |-> v]
EmptyBody == Body("malformed", NoMember, NoMember)
Bodies ==
    {Body(k, NoMember, NoMember) : k \in {"malformed", "null", "array"}}
        \cup {Body("object", u, v) : u \in URLMembers, v \in VersionMembers}

\* json.Unmarshal(body, &updateResp): [err, v]
Unmarshal(body, v) ==
    IF body.kind = "malformed" THEN [err |-> TRUE, v |-> v]
    ELSE IF body.kind = "null" THEN [err |-> FALSE, v |-> v]
    ELSE IF body.kind = "array" THEN [err |-> TRUE, v |-> v]
    ELSE [err |-> body.url.t = "number" \/ body.version.t = "number",
          v   |-> UpdateResponse(
                     IF body.url.t = "string" THEN body.url.s
                                              ELSE v.UpdateURL,
                     IF body.version.t = "string" THEN body.version.s
                                                  ELSE v.UpdateVersion)]

\* what http.Get(updateCheckURL) and io.ReadAll give
HTTPResponse(e, c, r, b) ==
    [err |-> e, StatusCode |-> c, readErr |-> r, body |-> b]
TransportError == HTTPResponse(TRUE, 0, FALSE, EmptyBody)
StatusCodes == {200, 404}
CheckResponses ==
    {TransportError, HTTPResponse(FALSE, 204, FALSE, EmptyBody)}
        \cup {HTTPResponse(FALSE, c, r, b) :
                 c \in StatusCodes, r \in BOOLEAN, b \in Bodies}
NoResponse == HTTPResponse(FALSE, 0, FALSE, EmptyBody)

\* the body fails JSON parsing into UpdateResponse
ParseFails(r) == Unmarshal(r.body, ZeroUpdateResponse).err

CheckResult(a, v, p) == [available |-> a, resp |-> v, panic |-> p]

\* IsNewReleaseAvailable without the return of lines 56-59
IsNewReleaseAvailable_NoErrCheck(r) ==
    IF r.err THEN CheckResult(FALSE, ZeroUpdateResponse, FALSE)
    ELSE IF r.StatusCode = 204
    THEN CheckResult(FALSE, ZeroUpdateResponse, FALSE)
    ELSE CheckResult(TRUE, Unmarshal(r.body, ZeroUpdateResponse).v, FALSE)

\* updater.go:37-62
IsNewReleaseAvailable(r) ==
    IF r.err THEN CheckResult(FALSE, ZeroUpdateResponse, FALSE)
    ELSE IF r.StatusCode = 204
    THEN CheckResult(FALSE, ZeroUpdateResponse, FALSE)
    ELSE LET um == Unmarshal(r.body, ZeroUpdateResponse) IN
         IF um.err THEN CheckResult(FALSE, um.v, FALSE)
         ELSE CheckResult(TRUE, um.v, FALSE)

----------------------------------------------------------------------------
(* DownloadNewRelease, updater.go:64-104: [err, the directory, the flag, obs] *)

\* what the environment does to one call
DownloadEnvs ==
    [mkdirOk : BOOLEAN, get : {"error", "readError"} \cup Payloads,
     openOk : BOOLEAN, writeOk : BOOLEAN]

NoDownload == [stat |-> "none", httpGets |-> 0, before |-> NoFile,
               after |-> NoFile]

DownloadResult(e, d, fs, flag, st, g, name) ==
    [err |-> e, stageDir |-> d, files |-> fs, UpdateDownloaded |-> flag,
     obs |-> [stat |-> st, httpGets |-> g,
              before |-> ContentAt(stageDir, files, name),
              after |-> ContentAt(d, fs, name)]]

\* the download of lines 78-96 as such
downloadGet(updateResp, e, escapedFilename, d, st) ==
    IF ~CanGet(updateResp.UpdateURL) \/ e.get = "error"
    THEN DownloadResult("get", d, files, UpdateDownloaded,
                        st, 1, escapedFilename)
    ELSE IF e.get = "readError"
    THEN DownloadResult("read", d, files, UpdateDownloaded,
                        st, 1, escapedFilename)
    ELSE IF ~e.openOk \/ escapedFilename = <<>>
    THEN DownloadResult("open", d, files, UpdateDownloaded,
                        st, 1, escapedFilename)
    ELSE IF ~e.writeOk
    THEN DownloadResult("write", d,
                        [files EXCEPT ![escapedFilename] = "partial"],
                        UpdateDownloaded, st, 1, escapedFilename)
    ELSE DownloadResult("nil", d,
                        [files EXCEPT ![escapedFilename] = e.get],
                        TRUE, st, 1, escapedFilename)

\* downloadFetch that downloads whether or not the file is there
downloadFetch_Always(updateResp, e, escapedFilename, d, st) ==
    IF st = "error"
    THEN DownloadResult("stat", d, files, UpdateDownloaded,
                        st, 0, escapedFilename)
    ELSE downloadGet(updateResp, e, escapedFilename, d, st)

\* downloadFetch that sets UpdateDownloaded only after a download
downloadFetch_FlagOnDownload(updateResp, e, escapedFilename, d, st) ==
    IF st = "notexist"
    THEN downloadGet(updateResp, e, escapedFilename, d, st)
    ELSE IF st = "error"
    THEN DownloadResult("stat", d, files, UpdateDownloaded,
                        st, 0, escapedFilename)
    ELSE DownloadResult("nil", d, files, FALSE, st, 0, escapedFilename)

\* downloadFetch that downloads again over a file that is not a whole payload
downloadFetch_Verified(updateResp, e, escapedFilename, d, st) ==
    IF st = "notexist"
          \/ (st = "ok" /\ ContentAt(d, files, escapedFilename) = "partial")
    THEN downloadGet(updateResp, e, escapedFilename, d, st)
    ELSE IF st = "error"
    THEN DownloadResult("stat", d, files, UpdateDownloaded,
                        st, 0, escapedFilename)
    ELSE DownloadResult("nil", d, files, TRUE, st, 0, escapedFilename)

\* updater.go:77-103: the branches on the result st of os.Stat(escapedFilename),
\* in the directory state d that lines 70-75 left
downloadFetch(updateResp, e, escapedFilename, d, st) ==
    IF st = "notexist"
    THEN downloadGet(updateResp, e, escapedFilename, d, st)
    ELSE IF st = "error"
    THEN DownloadResult("stat", d, files, UpdateDownloaded,
                        st, 0, escapedFilename)
    ELSE DownloadResult("nil", d, files, TRUE, st, 0, escapedFilename)

\* updater.go:76: os.Stat(escapedFilename)
downloadStat(updateResp, e, escapedFilename, d) ==
    downloadFetch(updateResp, e, escapedFilename, d,
                  Stat(d, files, escapedFilename))

\* updater.go:70-75: os.Stat(UpdateStageDir) and os.MkdirAll
downloadMkdir(updateResp, e, escapedFilename) ==
    IF Stat(stageDir, files, <<>>) = "notexist"
    THEN IF ~e.mkdirOk
         THEN DownloadResult("mkdir", stageDir, files, UpdateDownloaded,
                             "none", 0, escapedFilename)
         ELSE downloadStat(updateResp, e, escapedFilename, "present")
    ELSE downloadStat(updateResp, e, escapedFilename, stageDir)

\* updater.go:66-69: the parse error, or the staging path
downloadParsed(updateResp, e, updateURL) ==
    IF updateURL.err
    THEN DownloadResult("parse", stageDir, files, UpdateDownloaded,
                        "none", 0, <<>>)
    ELSE downloadMkdir(updateResp, e, EscapedPath[updateURL.Path])

\* updater.go:64-104
DownloadNewRelease(updateResp, e) ==
    downloadParsed(updateResp, e, ParsedURL[updateResp.UpdateURL])

----------------------------------------------------------------------------
(* DoUpgrade, updater.go:134-171 *)

UpgradeEnvs == [start : {"error", "started", "noprocess"}, releaseOk : BOOLEAN]

\* cmd.Start can only start a file that is there
CanStart(e) ==
    e.start = "error" \/ Stat(stageDir, files, Installer) = "ok"

\* stat: what os.Stat(installerExe) gave; spawn: cmd.Start was called;
\* started: the child process runs; released: cmd.Process.Release was called
\* exit: os.Exit was called, with exitCode
UpgradeResult(st, sp, s, r, re, e, x) ==
    [stat |-> st, spawn |-> sp, started |-> s, released |-> r,
     releaseErr |-> re, err |-> e, exit |-> x,
     exitCode |-> IF x THEN 0 ELSE -1]

NoUpgrade == UpgradeResult("none", FALSE, FALSE, FALSE, FALSE, "none", FALSE)

\* DoUpgrade without the check of lines 137-140
DoUpgrade_NoStat(e) ==
    LET st == Stat(stageDir, files, Installer) IN
    IF e.start = "error"
    THEN UpgradeResult(st, TRUE, FALSE, FALSE, FALSE, "start", FALSE)
    ELSE IF e.start = "started"
    THEN UpgradeResult(st, TRUE, TRUE, TRUE, ~e.releaseOk, "nil", TRUE)
    ELSE UpgradeResult(st, TRUE, FALSE, FALSE, FALSE, "nostart", FALSE)

\* DoUpgrade that returns the error of Release instead of logging it
DoUpgrade_ReleaseFatal(e) ==
    LET st == Stat(stageDir, files, Installer) IN
    IF st = "notexist"
    THEN UpgradeResult(st, FALSE, FALSE, FALSE, FALSE, "locate", FALSE)
    ELSE IF e.start = "error"
    THEN UpgradeResult(st, TRUE, FALSE, FALSE, FALSE, "start", FALSE)
    ELSE IF e.start = "started"
    THEN IF e.releaseOk
         THEN UpgradeResult(st, TRUE, TRUE, TRUE, FALSE, "nil", TRUE)
         ELSE UpgradeResult(st, TRUE, TRUE, TRUE, TRUE, "release", FALSE)
    ELSE UpgradeResult(st, TRUE, FALSE, FALSE, FALSE, "nostart", FALSE)

DoUpgrade(e) ==
    LET st == Stat(stageDir, files, Installer) IN
    IF st = "notexist"
    THEN UpgradeResult(st, FALSE, FALSE, FALSE, FALSE, "locate", FALSE)
    ELSE IF e.start = "error"
    THEN UpgradeResult(st, TRUE, FALSE, FALSE, FALSE, "start", FALSE)
    ELSE IF e.start = "started"
    THEN UpgradeResult(st, TRUE, TRUE, TRUE, ~e.releaseOk, "nil", TRUE)
    ELSE UpgradeResult(st, TRUE, FALSE, FALSE, FALSE, "nostart", FALSE)

----------------------------------------------------------------------------
(* wndProc, eventloop.go:58-184 *)

\* the message codes of eventloop.go:60-67, 143 and 159
WM_RBUTTONUP   == 517
WM_LBUTTONUP   == 514
WM_COMMAND     == 273
WM_ENDSESSION  == 22
WM_CLOSE       == 16
WM_DESTROY     == 2
WM_MOUSEMOVE   == 512
WM_LBUTTONDOWN == 513
NotificationClicked   == 1029
NotificationDismissed == 1028

\* codes the tray gets at run time, and a message wndProc has no case for
wmSystrayMessage == 1025
wmTaskbarCreated == 49152
WM_PAINT         == 15

\* the menu item identifiers, distinct constants of the package
QuitMenuID       == 1
UpdateMenuID     == 2
LogsMenuID       == 3
GetStartedMenuID == 4
UnknownMenuIDs   == {0, 5}

Chans == {"Quit", "Update", "ShowLogs", "DoFirstUse"}

Msg(m, w, l) == [message |-> m, wParam |-> w, lParam |-> l]
NoMsg == Msg(0, 0, 0)

\* what the operating system can deliver to the window
OsMessages ==
    {Msg(WM_COMMAND, w, 0) :
        w \in {QuitMenuID, UpdateMenuID, LogsMenuID, GetStartedMenuID}
                 \cup UnknownMenuIDs}
    \cup {Msg(wmSystrayMessage, 0, l) :
             l \in {WM_MOUSEMOVE, WM_LBUTTONDOWN, WM_RBUTTONUP, WM_LBUTTONUP,
                    NotificationClicked, NotificationDismissed, WM_PAINT}}
    \cup {Msg(m, 0, 0) :
             m \in {WM_CLOSE, WM_ENDSESSION, wmTaskbarCreated, WM_PAINT}}

\* a channel of t.callbacks takes a value only while a receiver waits on it;
\* ready is the set of channels with a waiting receiver
CanSend(ch, ready) == ch \in ready

\* select { case ch <- struct{}{}: default: }, eventloop.go:77-82:
\* the channels that got a signal, and whether the sender is left waiting
TrySend(ch, ready) ==
    [sent |-> IF CanSend(ch, ready) THEN {ch} ELSE {}, blocked |-> FALSE]

NoSend == [sent |-> {}, blocked |-> FALSE]

\* eventloop.go:71-107
\* wndProcCommand with the Logs item wired to the first-use channel
wndProcCommand_Miswired(menuItemId, ready) ==
    IF menuItemId = QuitMenuID THEN TrySend("Quit", ready)
    ELSE IF menuItemId = UpdateMenuID THEN TrySend("Update", ready)
    ELSE IF menuItemId = LogsMenuID THEN TrySend("DoFirstUse", ready)
    ELSE IF menuItemId = GetStartedMenuID THEN TrySend("DoFirstUse", ready)
    ELSE NoSend

wndProcCommand(menuItemId, ready) ==
    IF menuItemId = QuitMenuID THEN TrySend("Quit", ready)
    ELSE IF menuItemId = UpdateMenuID THEN TrySend("Update", ready)
    ELSE IF menuItemId = LogsMenuID THEN TrySend("ShowLogs", ready)
    ELSE IF menuItemId = GetStartedMenuID THEN TrySend("DoFirstUse", ready)
    ELSE NoSend

\* wndProcSystray with the two branches of the notification click exchanged
wndProcSystray_Swapped(lParam, ready) ==
    IF lParam \in {WM_MOUSEMOVE, WM_LBUTTONDOWN} THEN NoSend
    ELSE IF lParam \in {WM_RBUTTONUP, WM_LBUTTONUP} THEN NoSend
    ELSE IF lParam = NotificationClicked
    THEN IF pendingUpdate THEN TrySend("DoFirstUse", ready)
                          ELSE TrySend("Update", ready)
    ELSE NoSend

\* eventloop.go:133-163
wndProcSystray(lParam, ready) ==
    IF lParam \in {WM_MOUSEMOVE, WM_LBUTTONDOWN} THEN NoSend
    ELSE IF lParam \in {WM_RBUTTONUP, WM_LBUTTONUP} THEN NoSend
    ELSE IF lParam = NotificationClicked
    THEN IF pendingUpdate THEN TrySend("Update", ready)
                          ELSE TrySend("DoFirstUse", ready)
    ELSE NoSend

\* the receivers that matter to a message: those of a message whose handler
\* has a send
ReadySets(m) ==
    IF m.message = WM_COMMAND
          \/ (m.message = wmSystrayMessage /\ m.lParam = NotificationClicked)
    THEN SUBSET Chans
    ELSE {{}}

Handled(m, ready, snd) ==
    [message |-> m.message, wParam |-> m.wParam, lParam |-> m.lParam,
     ready |-> ready, pending |-> pendingUpdate,
     sent |-> snd.sent, blocked |-> snd.blocked]

NothingHandled == [message |-> 0, wParam |-> 0, lParam |-> 0, ready |-> {},
                   pending |-> FALSE, sent |-> {}, blocked |-> FALSE]

----------------------------------------------------------------------------
(* Initial state: a process that has just started, on any staging directory
   an earlier run can have left behind *)

InitialContents == {NoFile, "p1"}

\* updater.go:22-25 and the goroutines not yet started
InitUpdater ==
    /\ UpdateDownloaded = FALSE
    /\ stageDir \in {"absent", "present", "inaccessible"}
    /\ files \in [StageNames -> InitialContents]
    /\ stageDir = "absent" => \A n \in StageNames : files[n] = NoFile
    /\ pc = [i \in Scheds |-> "idle"]
    /\ ctxDone = [i \in Scheds |-> FALSE]
    /\ available = [i \in Scheds |-> FALSE]
    /\ resp = [i \in Scheds |-> ZeroUpdateResponse]
    /\ httpResp = [i \in Scheds |-> NoResponse]
    /\ err = [i \in Scheds |-> "none"]
    /\ dl = [i \in Scheds |-> NoDownload]
    /\ hadFailure = [i \in Scheds |-> FALSE]
    /\ embPc = "idle"
    /\ up = NoUpgrade
    /\ procExited = FALSE
    /\ crashed = FALSE

\* the tray before Run(), with t.nid in state n; eventloop.go:14-16 for
\* quitOnce
InitTray(n) ==
    /\ pump = "created"
    /\ cur = NoMsg
    /\ inClose = FALSE
    /\ window = "alive"
    /\ registered = TRUE
    /\ nid = n
    /\ muNID = "free"
    /\ pendingUpdate = FALSE
    /\ quitPosted = FALSE
    /\ closePending = 0
    /\ closePosts = 0
    /\ handled = NothingHandled
    /\ quitPc = [c \in Callers |-> "idle"]
    /\ onceDone = FALSE
    /\ onceM = 0

\* a tray whose icon is registered
Init == InitUpdater /\ InitTray("added")

\* the process still runs
Alive == ~procExited /\ ~crashed

----------------------------------------------------------------------------
(* StartBackgroundUpdaterChecker, updater.go:106-132 *)

fsVars   == <<UpdateDownloaded, stageDir, files>>
embVars  == <<embPc, up, procExited>>
locals   == <<available, resp, httpResp, err, dl>>

\* a loop that downloads whatever the check returned
AfterCheck_Always(avail) == "download"

\* updater.go:113: where the loop goes on the result of the check
AfterCheck(avail) == IF avail THEN "download" ELSE "select"

\* a loop that gives up when the download fails
AfterDownload_ReturnOnError(e) == IF e = "nil" THEN "notify" ELSE "exited"

\* updater.go:115-118: where the loop goes on the error of the download
AfterDownload(e) == "notify"

\* a loop that never looks at the context
AfterSelect_Ignore(done) == "sleep"

\* updater.go:123-129: where the loop goes on ctx.Done()
AfterSelect(done) == IF done THEN "exited" ELSE "sleep"

\* updater.go:106-107: the call starts a goroutine and returns
StartBackgroundUpdaterChecker(i) ==
    /\ Alive
    /\ pc[i] = "idle"
    /\ pc' = [pc EXCEPT ![i] = "warmup"]
    /\ UNCHANGED <<trayVars, fsVars, embVars, locals, ctxDone, hadFailure, crashed>>

\* updater.go:109: time.Sleep(5 * time.Second) returns
WarmupDone(i) ==
    /\ Alive
    /\ pc[i] = "warmup"
    /\ pc' = [pc EXCEPT ![i] = "check"]
    /\ UNCHANGED <<trayVars, fsVars, embVars, locals, ctxDone, hadFailure, crashed>>

\* updater.go:112: IsNewReleaseAvailable() returns, having received r
CheckReturn(i, r) ==
    /\ Alive
    /\ pc[i] = "check"
    /\ LET out == IsNewReleaseAvailable(r) IN
       /\ available' = [available EXCEPT ![i] = out.available]
       /\ resp' = [resp EXCEPT ![i] = out.resp]
       /\ crashed' = out.panic
       /\ hadFailure' = [hadFailure EXCEPT ![i] =
                            @ \/ r.err \/ (r.StatusCode # 204 /\ ParseFails(r))]
    /\ httpResp' = [httpResp EXCEPT ![i] = r]
    /\ pc' = [pc EXCEPT ![i] = "checked"]
    /\ UNCHANGED <<trayVars, fsVars, embVars, err, dl, ctxDone>>

\* updater.go:113: if available
IfAvailable(i) ==
    /\ Alive
    /\ pc[i] = "checked"
    /\ pc' = [pc EXCEPT ![i] = AfterCheck(available[i])]
    /\ httpResp' = [httpResp EXCEPT ![i] = NoResponse]
    /\ UNCHANGED <<trayVars, fsVars, embVars, available, resp, err, dl, ctxDone,
                   hadFailure, crashed>>

\* updater.go:114-117: DownloadNewRelease(resp) returns; an error is logged
DownloadReturn(i, e) ==
    /\ Alive
    /\ pc[i] = "download"
    /\ LET out == DownloadNewRelease(resp[i], e) IN
       /\ err' = [err EXCEPT ![i] = out.err]
       /\ dl' = [dl EXCEPT ![i] = out.obs]
       /\ stageDir' = out.stageDir
       /\ files' = out.files
       /\ UpdateDownloaded' = out.UpdateDownloaded
       /\ hadFailure' = [hadFailure EXCEPT ![i] = @ \/ out.err # "nil"]
       /\ pc' = [pc EXCEPT ![i] = AfterDownload(out.err)]
    /\ UNCHANGED <<trayVars, embVars, available, resp, httpResp, ctxDone, crashed>>

\* updater.go:118-121: cb("TODO version") returns; an error is logged
NotifyReturn(i, cbErr) ==
    /\ Alive
    /\ pc[i] = "notify"
    /\ err' = [err EXCEPT ![i] = IF cbErr THEN "cb" ELSE "nil"]
    /\ hadFailure' = [hadFailure EXCEPT ![i] = @ \/ cbErr]
    /\ pc' = [pc EXCEPT ![i] = "select"]
    /\ UNCHANGED <<trayVars, fsVars, embVars, available, resp, httpResp, dl, ctxDone,
                   crashed>>

\* updater.go:123-129: the non-blocking select on ctx.Done()
Select(i) ==
    /\ Alive
    /\ pc[i] = "select"
    /\ pc' = [pc EXCEPT ![i] = AfterSelect(ctxDone[i])]
    /\ available' = [available EXCEPT ![i] = FALSE]
    /\ resp' = [resp EXCEPT ![i] = ZeroUpdateResponse]
    /\ err' = [err EXCEPT ![i] = "none"]
    /\ dl' = [dl EXCEPT ![i] = NoDownload]
    /\ UNCHANGED <<trayVars, fsVars, embVars, httpResp, ctxDone, hadFailure, crashed>>

\* updater.go:128: time.Sleep(60 * 60 * time.Second) returns
SleepReturn(i) ==
    /\ Alive
    /\ pc[i] = "sleep"
    /\ pc' = [pc EXCEPT ![i] = "check"]
    /\ UNCHANGED <<trayVars, fsVars, embVars, locals, ctxDone, hadFailure, crashed>>

\* the owner of the context cancels it
Cancel(i) ==
    /\ Alive
    /\ ~ctxDone[i]
    /\ ctxDone' = [ctxDone EXCEPT ![i] = TRUE]
    /\ UNCHANGED <<trayVars, fsVars, embVars, locals, pc, hadFailure, crashed>>

----------------------------------------------------------------------------
(* The embedder calls DoUpgrade *)

schedVars == <<pc, ctxDone, locals, hadFailure, crashed>>

\* updater.go:134-171
DoUpgradeCall(e) ==
    /\ Alive
    /\ embPc = "idle"
    /\ CanStart(e)
    /\ LET out == DoUpgrade(e) IN
       /\ up' = out
       /\ procExited' = out.exit
       /\ embPc' = IF out.exit THEN "exit" ELSE "returned"
    /\ UNCHANGED <<trayVars, fsVars, schedVars>>

\* the caller has the error DoUpgrade returned
DoUpgradeDone ==
    /\ Alive
    /\ embPc = "returned"
    /\ embPc' = "idle"
    /\ up' = NoUpgrade
    /\ UNCHANGED <<trayVars, fsVars, schedVars, procExited>>

----------------------------------------------------------------------------
(* nativeLoop, eventloop.go:22-54, and the handlers it dispatches to *)

quitVars  == <<quitPc, onceDone, onceM, closePosts>>
winVars   == <<window, registered>>
nidVars   == <<nid, muNID>>

\* eventloop.go:18-20: Run() enters the message pump
Run ==
    /\ Alive
    /\ pump = "created"
    /\ pump' = "getmsg"
    /\ UNCHANGED <<updVars, cur, inClose, winVars, nidVars, pendingUpdate,
                   quitPosted, closePending, handled, quitVars>>

\* eventloop.go:42-44: GetMessage fails and nativeLoop returns
PumpError ==
    /\ Alive
    /\ pump = "getmsg"
    /\ pump' = "failed"
    /\ UNCHANGED <<updVars, cur, inClose, winVars, nidVars, pendingUpdate,
                   quitPosted, closePending, handled, quitVars>>

\* eventloop.go:45-46: GetMessage retrieves WM_QUIT, once no posted message
\* is left
PumpQuit ==
    /\ Alive
    /\ pump = "getmsg"
    /\ quitPosted
    /\ closePending = 0
    /\ pump' = "exited"
    /\ UNCHANGED <<updVars, cur, inClose, winVars, nidVars, pendingUpdate,
                   quitPosted, closePending, handled, quitVars>>

\* wndProc on a message that neither destroys the window nor touches t.nid:
\* eventloop.go:71-107, 133-163 and 172-181
wndProcPlain(m, ready) ==
    /\ m.message \in {WM_COMMAND, wmSystrayMessage, WM_PAINT}
    /\ LET snd == IF m.message = WM_COMMAND
                  THEN wndProcCommand(m.wParam, ready)
                  ELSE IF m.message = wmSystrayMessage
                  THEN wndProcSystray(m.lParam, ready)
                  ELSE NoSend
       IN /\ handled' = Handled(m, ready, snd)
          /\ pump' = IF snd.blocked THEN "blocked" ELSE "dispatched"
    /\ UNCHANGED <<cur, inClose, winVars, nidVars, pendingUpdate, quitPosted>>

\* eventloop.go:108-116: DestroyWindow, which calls wndProc with WM_DESTROY
\* before it returns, then wcex.unregister
wndProcClose(m) ==
    /\ m.message = WM_CLOSE
    /\ IF window = "alive"
       THEN /\ window' = "destroyed"
            /\ pump' = "lock"
            /\ cur' = Msg(WM_DESTROY, 0, 0)
            /\ inClose' = TRUE
            /\ UNCHANGED <<registered, handled>>
       ELSE /\ registered' = FALSE
            /\ handled' = Handled(m, {}, NoSend)
            /\ pump' = "dispatched"
            /\ UNCHANGED <<window, cur, inClose>>
    /\ UNCHANGED <<nidVars, pendingUpdate, quitPosted>>

\* eventloop.go:121-122 and 164-166: the handler goes for t.muNID
wndProcNid(m) ==
    /\ m.message \in {WM_ENDSESSION, wmTaskbarCreated}
    /\ pump' = "lock"
    /\ cur' = m
    /\ UNCHANGED <<inClose, winVars, nidVars, pendingUpdate, quitPosted,
                   handled>>

\* eventloop.go:35 and 47-50: GetMessage retrieves a message of the
\* operating system and DispatchMessage calls wndProc
Dispatch(m, ready) ==
    /\ Alive
    /\ pump = "getmsg"
    /\ window = "alive"
    /\ \/ wndProcPlain(m, ready)
       \/ wndProcClose(m)
       \/ wndProcNid(m)
    /\ UNCHANGED <<updVars, closePending, quitVars>>

\* the same for a WM_CLOSE that quit() posted
DispatchClose ==
    /\ Alive
    /\ pump = "getmsg"
    /\ closePending > 0
    /\ closePending' = closePending - 1
    /\ wndProcClose(Msg(WM_CLOSE, 0, 0))
    /\ UNCHANGED <<updVars, quitVars>>

\* eventloop.go:34 and 50-53: DispatchMessage returns and the loop goes on
PumpLoop ==
    /\ Alive
    /\ pump = "dispatched"
    /\ pump' = "getmsg"
    /\ handled' = NothingHandled
    /\ UNCHANGED <<updVars, cur, inClose, winVars, nidVars, pendingUpdate,
                   quitPosted, closePending, quitVars>>

\* eventloop.go:122 and 166: t.muNID.Lock() returns
LockNID ==
    /\ Alive
    /\ pump = "lock"
    /\ muNID = "free"
    /\ muNID' = "pump"
    /\ pump' = "locked"
    /\ UNCHANGED <<updVars, cur, inClose, winVars, nid, pendingUpdate,
                   quitPosted, closePending, handled, quitVars>>

\* a WM_DESTROY case without the deferred PostQuitMessage
PostsQuit_Never(message) == FALSE

\* a deferred PostQuitMessage that end-session handling runs as well
PostsQuit_OnCleanup(message) == message \in {WM_DESTROY, WM_ENDSESSION}

\* eventloop.go:117-121: of the messages that reach the cleanup of 122-129
\* only WM_DESTROY has deferred PostQuitMessage
PostsQuit(message) == message = WM_DESTROY

\* t.nid.add() on a nil t.nid, eventloop.go:167: the method, which is not part
\* of these files, returns an error or dereferences the nil pointer
NilAddOutcomes == {"error", "panic"}

\* NidAfter without the nil test of line 123
NidAfter_NoNilTest(message, n) ==
    IF message = wmTaskbarCreated THEN "added" ELSE "deleted"

\* eventloop.go:123-124 and 167: what the call on t.nid, when the shell
\* accepts it, leaves of the icon
NidAfter(message, n) ==
    IF n = "nil" THEN "nil"
    ELSE IF message = wmTaskbarCreated THEN "added"
    ELSE "deleted"

updNoCrash == <<UpdateDownloaded, stageDir, files, pc, ctxDone, available,
                resp, httpResp, err, dl, hadFailure, embPc, up, procExited>>

\* eventloop.go:123-128 and 167-170: t.nid.delete() or t.nid.add(), with the
\* mutex held; ok: the shell accepts the call, else the error is logged
NidCleanup(ok, o) ==
    /\ Alive
    /\ pump = "locked"
    /\ IF cur.message = wmTaskbarCreated /\ nid = "nil"
       THEN /\ crashed' = (o = "panic")
            /\ pump' = IF o = "panic" THEN "locked" ELSE "cleaned"
            /\ UNCHANGED nid
       ELSE /\ nid' = IF ok THEN NidAfter(cur.message, nid) ELSE nid
            /\ pump' = "cleaned"
            /\ UNCHANGED crashed
    /\ UNCHANGED <<updNoCrash, cur, inClose, winVars, muNID, pendingUpdate,
                   quitPosted, closePending, handled, quitVars>>

\* a handler that returns with t.muNID held
UnlockNID_Forgotten ==
    /\ Alive
    /\ pump = "cleaned"
    /\ pump' = "unlocked"
    /\ UNCHANGED <<updVars, cur, inClose, winVars, nidVars, pendingUpdate,
                   quitPosted, closePending, handled, quitVars>>

\* eventloop.go:129 and 171: t.muNID.Unlock()
UnlockNID ==
    /\ Alive
    /\ pump = "cleaned"
    /\ muNID' = "free"
    /\ pump' = "unlocked"
    /\ UNCHANGED <<updVars, cur, inClose, winVars, nid, pendingUpdate,
                   quitPosted, closePending, handled, quitVars>>

\* eventloop.go:183: wndProc returns, which under WM_DESTROY runs the deferred
\* PostQuitMessage of line 119; under WM_CLOSE DestroyWindow returns then and
\* lines 113-116 unregister the class
HandlerReturn ==
    /\ Alive
    /\ pump = "unlocked"
    /\ quitPosted' = (quitPosted \/ PostsQuit(cur.message))
    /\ registered' = (registered /\ ~inClose)
    /\ handled' = Handled(cur, {}, NoSend)
    /\ cur' = NoMsg
    /\ inClose' = FALSE
    /\ pump' = "dispatched"
    /\ UNCHANGED <<updVars, window, nidVars, pendingUpdate, closePending,
                   quitVars>>

\* another goroutine takes and releases t.muNID
AsyncLock ==
    /\ Alive
    /\ muNID = "free"
    /\ muNID' = "async"
    /\ UNCHANGED <<updVars, pump, cur, inClose, winVars, nid, pendingUpdate,
                   quitPosted, closePending, handled, quitVars>>

AsyncUnlock ==
    /\ Alive
    /\ muNID = "async"
    /\ muNID' = "free"
    /\ UNCHANGED <<updVars, pump, cur, inClose, winVars, nid, pendingUpdate,
                   quitPosted, closePending, handled, quitVars>>

\* the embedder marks an update as pending
SetPendingUpdate ==
    /\ Alive
    /\ ~pendingUpdate
    /\ pendingUpdate' = TRUE
    /\ UNCHANGED <<updVars, pump, cur, inClose, winVars, nidVars, quitPosted,
                   closePending, handled, quitVars>>

----------------------------------------------------------------------------
(* Quit and quit, eventloop.go:186-200, with sync.Once *)

pumpVars == <<pump, cur, inClose, winVars, nidVars, pendingUpdate,
              quitPosted, handled>>

\* Quit that calls quit() without the guard
OnceRuns_Unguarded == TRUE

\* sync.Once.Do: f runs unless the done flag is set
OnceRuns == ~onceDone

\* eventloop.go:187: quitOnce.Do reads the done flag
QuitCall(c) ==
    /\ Alive
    /\ quitPc[c] = "idle"
    /\ quitPc' = [quitPc EXCEPT ![c] = IF onceDone THEN "returned" ELSE "doSlow"]
    /\ UNCHANGED <<updVars, pumpVars, closePending, closePosts, onceDone, onceM>>

\* sync.Once.doSlow: o.m.Lock() returns
OnceLock(c) ==
    /\ Alive
    /\ quitPc[c] = "doSlow"
    /\ onceM = 0
    /\ onceM' = c
    /\ quitPc' = [quitPc EXCEPT ![c] = "locked"]
    /\ UNCHANGED <<updVars, pumpVars, closePending, closePosts, onceDone>>

\* sync.Once.doSlow calls quit, eventloop.go:190-200: PostMessage succeeds
\* (posted) or fails
OnceRun(c, posted) ==
    /\ Alive
    /\ quitPc[c] = "locked"
    /\ posted => window = "alive"
    /\ IF OnceRuns
       THEN /\ closePosts' = closePosts + 1
            /\ closePending' = closePending + (IF posted THEN 1 ELSE 0)
       ELSE /\ ~posted
            /\ UNCHANGED <<closePosts, closePending>>
    /\ quitPc' = [quitPc EXCEPT ![c] = "unlock"]
    /\ UNCHANGED <<updVars, pumpVars, onceDone, onceM>>

\* sync.Once.doSlow returns: the deferred done.Store(1) and o.m.Unlock()
OnceUnlock(c) ==
    /\ Alive
    /\ quitPc[c] = "unlock"
    /\ onceDone' = TRUE
    /\ onceM' = 0
    /\ quitPc' = [quitPc EXCEPT ![c] = "returned"]
    /\ UNCHANGED <<updVars, pumpVars, closePending, closePosts>>

----------------------------------------------------------------------------
(* The tray session *)

PumpNext ==
    \/ Run
    \/ PumpError
    \/ PumpQuit
    \/ \E m \in OsMessages : \E ready \in ReadySets(m) : Dispatch(m, ready)
    \/ DispatchClose
    \/ PumpLoop
    \/ LockNID
    \/ \E ok \in BOOLEAN : \E o \in NilAddOutcomes : NidCleanup(ok, o)
    \/ UnlockNID
    \/ HandlerReturn

QuitNext(c) ==
    \/ QuitCall(c)
    \/ OnceLock(c)
    \/ \E posted \in BOOLEAN : OnceRun(c, posted)
    \/ OnceUnlock(c)

TrayNext ==
    \/ PumpNext
    \/ \E c \in Callers : QuitNext(c)
    \/ AsyncLock
    \/ AsyncUnlock
    \/ SetPendingUpdate

\* the tray session of a process whose staging directory does not exist
TrayInit == Init /\ stageDir = "absent"

TraySpec == TrayInit /\ [][TrayNext]_vars

\* the tray session whether or not t.nid has been set when the pump starts
IconInit ==
    /\ InitUpdater
    /\ stageDir = "absent"
    /\ \E n \in {"nil", "added"} : InitTray(n)

IconSpec == IconInit /\ [][TrayNext]_vars

----------------------------------------------------------------------------
(* The program with one background checker *)

MainScheds == {1}

SchedNext(i) ==
    \/ StartBackgroundUpdaterChecker(i)
    \/ WarmupDone(i)
    \/ \E r \in CheckResponses : CheckReturn(i, r)
    \/ IfAvailable(i)
    \/ \E e \in DownloadEnvs : DownloadReturn(i, e)
    \/ \E cbErr \in BOOLEAN : NotifyReturn(i, cbErr)
    \/ Select(i)
    \/ SleepReturn(i)
    \/ Cancel(i)

EmbedderNext ==
    \/ \E e \in UpgradeEnvs : DoUpgradeCall(e)
    \/ DoUpgradeDone

Next ==
    \/ \E i \in MainScheds : SchedNext(i)
    \/ EmbedderNext

Spec == Init /\ [][Next]_vars

TypeOK ==
    /\ UpdateDownloaded \in BOOLEAN
    /\ stageDir \in {"absent", "present", "inaccessible"}
    /\ files \in [StageNames -> Contents]
    /\ \A i \in Scheds :
          pc[i] \in {"idle", "warmup", "check", "checked", "download",
                     "notify", "select", "sleep", "exited"}

\* a step of the loop of checker i, on responses R and download
\* environments E
LoopStep(i, R, E) ==
    \/ WarmupDone(i)
    \/ \E r \in R : CheckReturn(i, r)
    \/ IfAvailable(i)
    \/ \E e \in E : DownloadReturn(i, e)
    \/ \E cbErr \in BOOLEAN : NotifyReturn(i, cbErr)
    \/ Select(i)
    \/ SleepReturn(i)

\* one response and one environment for each way an iteration can go
FairResponses ==
    {TransportError,
     HTTPResponse(FALSE, 204, FALSE, EmptyBody),
     HTTPResponse(FALSE, 200, FALSE, EmptyBody),
     HTTPResponse(FALSE, 200, FALSE,
                  Body("object", [t |-> "string", s |-> URLFull], NoMember)),
     HTTPResponse(FALSE, 200, FALSE,
                  Body("object", [t |-> "string", s |-> URLBadEsc], NoMember))}

FairEnvs ==
    {e \in DownloadEnvs :
        /\ e.get \in {"error", "p1"}
        /\ e.mkdirOk = e.openOk
        /\ e.openOk = e.writeOk}

FairNext ==
    \/ \E i \in MainScheds :
          \/ StartBackgroundUpdaterChecker(i)
          \/ LoopStep(i, FairResponses, FairEnvs)
          \/ Cancel(i)
    \/ EmbedderNext

\* the loop under the assumption that every check, download, notify and
\* sleep returns
FairSpec ==
    /\ Init
    /\ [][FairNext]_vars
    /\ \A i \in MainScheds : WF_vars(LoopStep(i, FairResponses, FairEnvs))

----------------------------------------------------------------------------
(* The program when StartBackgroundUpdaterChecker is called more than once:
   updater.go:106-107 starts a goroutine on every call *)

\* no update, an update, and a failed check
MultiResponses ==
    {TransportError,
     HTTPResponse(FALSE, 204, FALSE, EmptyBody),
     HTTPResponse(FALSE, 200, FALSE,
                  Body("object", [t |-> "string", s |-> URLFull], NoMember))}

\* a download that succeeds and one whose GET fails
MultiEnvs ==
    {e \in DownloadEnvs :
        e.get \in {"error", "p1"} /\ e.mkdirOk /\ e.openOk /\ e.writeOk}

\* the checker goroutines whose loop is running
Active == {i \in Scheds : pc[i] \notin {"idle", "exited"}}

MultiNext ==
    \E i \in Scheds :
        \/ StartBackgroundUpdaterChecker(i)
        \/ LoopStep(i, MultiResponses, MultiEnvs)
        \/ Cancel(i)

MultiInit == Init /\ stageDir = "absent"

MultiSpec == MultiInit /\ [][MultiNext]_vars

----------------------------------------------------------------------------
(* The tray session when the pump and the holders of t.muNID make progress *)

\* the states of the session: the pump not started, running, running with
\* the quit signal due, and returned
SessionState ==
    IF pump = "created" THEN "Created"
    ELSE IF pump \in {"exited", "failed"} THEN "Destroyed"
    ELSE IF quitPosted THEN "Closing"
    ELSE "Running"

StateRank ==
    [s \in {"Created", "Running", "Closing", "Destroyed"} |->
        IF s = "Created" THEN 0 ELSE IF s = "Running" THEN 1
        ELSE IF s = "Closing" THEN 2 ELSE 3]

\* GetMessage retrieves a posted message after the finitely many before it,
\* sync.Mutex hands the lock to a waiter, handlers and other holders of the
\* mutex run on
TrayFairness ==
    /\ SF_vars(DispatchClose)
    /\ SF_vars(LockNID)
    /\ WF_vars(\E ok \in BOOLEAN : \E o \in NilAddOutcomes : NidCleanup(ok, o))
    /\ WF_vars(UnlockNID)
    /\ WF_vars(HandlerReturn)
    /\ WF_vars(PumpLoop)
    /\ WF_vars(PumpQuit)
    /\ WF_vars(AsyncUnlock)

TrayLiveSpec == TrayInit /\ [][TrayNext]_vars /\ TrayFairness

----------------------------------------------------------------------------
(* Claims *)

\* the responses C1 is about
IsFailure(r) == r.err \/ r.StatusCode = 204 \/ ParseFails(r)

\* C1: IsNewReleaseAvailable returns available = false, and does not abort
\* the process, for a transport error, a status 204, and a body that fails
\* JSON parsing whatever the status code.
C1_FailureGivesNoUpdate ==
    \A i \in Scheds :
        (pc[i] = "checked" /\ IsFailure(httpResp[i]))
            => (~available[i] /\ ~crashed)

C1_Witness ==
    /\ pc[1] = "checked"
    /\ ~httpResp[1].err
    /\ httpResp[1].StatusCode = 404
    /\ httpResp[1].body.kind = "malformed"

\* C2: IsNewReleaseAvailable returns available = true only for a status 200
\* whose JSON body carries a url and a version.
C2_AvailableOnlyFor200WithUrl ==
    \A i \in Scheds :
        (pc[i] = "checked" /\ available[i])
            => /\ httpResp[i].StatusCode = 200
               /\ httpResp[i].body.kind = "object"
               /\ httpResp[i].body.url.t = "string"
               /\ httpResp[i].body.version.t = "string"

\* C3: when the staging file exists, DownloadNewRelease returns no error,
\* issues no HTTP GET and leaves the file as it is; no call issues more than
\* one GET, so two calls of which the second finds the file issue at most one.
C3_ExistingFileIsNotFetched ==
    \A i \in Scheds :
        pc[i] = "notify"
            => /\ dl[i].httpGets <= 1
               /\ dl[i].stat = "ok"
                    => /\ err[i] = "nil"
                       /\ dl[i].httpGets = 0
                       /\ dl[i].after = dl[i].before

C3_Witness ==
    /\ pc[1] = "notify"
    /\ dl[1].stat = "ok"
    /\ dl[1].before \in Payloads
    /\ resp[1].UpdateURL = URLFull

\* C4: UpdateDownloaded is false at process start, true right after every
\* DownloadNewRelease that returns no error, and never goes from true to false.
C4_FlagSetAndKept ==
    /\ ~UpdateDownloaded
    /\ [][UpdateDownloaded => UpdateDownloaded']_vars
    /\ [](\A i \in Scheds :
            (pc[i] = "notify" /\ err[i] = "nil") => UpdateDownloaded)

C4_Witness ==
    /\ pc[1] = "notify"
    /\ err[1] = "nil"
    /\ dl[1].httpGets = 0
    /\ UpdateDownloaded

\* C5: with the installer file absent, DoUpgrade returns an error, does not
\* call cmd.Start and does not exit the process.
C5_MissingInstallerIsAnError ==
    up.stat = "notexist"
        => /\ up.err = "locate"
           /\ ~up.spawn
           /\ ~up.exit
           /\ ~procExited

C5_Witness ==
    /\ embPc = "returned"
    /\ up.stat = "notexist"

\* C6: DoUpgrade exits the process, with status 0, exactly when the child was
\* started: it then released the handle and exits whether or not the release
\* failed; when cmd.Start fails it returns an error and the process goes on.
C6_ExitIffStarted ==
    /\ procExited <=> up.started
    /\ up.started => (up.released /\ up.exit /\ up.exitCode = 0)
    /\ (up.spawn /\ ~up.started)
          => (up.err \in {"start", "nostart"} /\ ~up.exit /\ embPc = "returned")

C6_Witness ==
    /\ procExited
    /\ up.started
    /\ up.releaseErr

\* the channel the claim pairs with each menu item
MenuChannel(id) ==
    IF id = QuitMenuID THEN "Quit"
    ELSE IF id = UpdateMenuID THEN "Update"
    ELSE IF id = LogsMenuID THEN "ShowLogs"
    ELSE "DoFirstUse"

KnownMenuIDs == {QuitMenuID, UpdateMenuID, LogsMenuID, GetStartedMenuID}

\* C7: a menu command for Quit, Update, ShowLogs or GetStarted puts one signal
\* on its own channel and none on the others when a receiver waits there, and
\* none at all when no receiver waits; the handler does not block, and an
\* unknown identifier sends nothing.
C7_MenuDispatch ==
    /\ pump # "blocked"
    /\ handled.message = WM_COMMAND
          => /\ ~handled.blocked
             /\ handled.wParam \in KnownMenuIDs
                   => handled.sent =
                         (IF MenuChannel(handled.wParam) \in handled.ready
                          THEN {MenuChannel(handled.wParam)} ELSE {})
             /\ handled.wParam \notin KnownMenuIDs => handled.sent = {}

C7_Witness ==
    /\ handled.message = WM_COMMAND
    /\ handled.wParam = LogsMenuID
    /\ handled.ready = Chans
    /\ handled.sent = {"ShowLogs"}

\* C8: however many goroutines call Quit(), in whatever interleaving, quit()
\* posts the close message once: one PostMessage call, so at most one WM_CLOSE
\* of Quit() in the queue.
C8_QuitPostsOnce ==
    /\ closePosts <= 1
    /\ closePending <= closePosts
    /\ (\E c \in Callers : quitPc[c] = "returned") => closePosts = 1

C8_Witness ==
    /\ \A c \in Callers : quitPc[c] = "returned"
    /\ closePosts = 1

\* C9: no outcome of check, download or notify ends the loop: each position of
\* the loop is left for the next one, and the loop is left only at the select,
\* with the context done.
C9_OnlyCancellationEndsTheLoop ==
    [][\A i \in Scheds :
          /\ (pc[i] = "check" /\ pc'[i] # pc[i]) => pc'[i] = "checked"
          /\ (pc[i] = "checked" /\ pc'[i] # pc[i])
                => pc'[i] \in {"download", "select"}
          /\ (pc[i] = "download" /\ pc'[i] # pc[i]) => pc'[i] = "notify"
          /\ (pc[i] = "notify" /\ pc'[i] # pc[i]) => pc'[i] = "select"
          /\ (pc[i] = "sleep" /\ pc'[i] # pc[i]) => pc'[i] = "check"
          /\ (pc'[i] = "exited" /\ pc[i] # "exited")
                => (pc[i] = "select" /\ ctxDone[i])
          /\ ~crashed']_vars

C9_Witness ==
    /\ hadFailure[1]
    /\ pc[1] = "check"
    /\ ~ctxDone[1]

\* C10: the loop looks at the context only at the select, so a check, a
\* download or a notify in flight runs to its end after a cancellation; and a
\* loop whose context is cancelled exits, as long as every call returns (the
\* process ending with os.Exit ends the loop as well).
C10_CancellationIsCooperative ==
    /\ [][\A i \in Scheds :
            (ctxDone[i] /\ pc[i] \in {"check", "checked", "download", "notify"}
                /\ pc'[i] # pc[i])
                => pc'[i] \in {"checked", "download", "select", "notify"}]_vars
    /\ \A i \in MainScheds :
          (ctxDone[i] /\ pc[i] # "idle") ~> (pc[i] = "exited" \/ ~Alive)

C10_Witness ==
    /\ ctxDone[1]
    /\ pc[1] = "notify"
    /\ dl[1].httpGets = 1
    /\ err[1] = "nil"

\* C11: after any calls of StartBackgroundUpdaterChecker at most one loop is
\* active, so that no two check, download or notify sequences run at the same
\* time.
C11_AtMostOneLoop == Cardinality(Active) <= 1

\* C12: in every iteration download starts only once the check has returned
\* available = true, notify is called once when that download has returned,
\* with or without an error, and is not called when the check returned
\* available = false; the next check starts only after the select that
\* follows the notify, and the sleep.
C12_StepsAreSequential ==
    [][\A i \in Scheds :
          /\ (pc'[i] = "download" /\ pc[i] # "download")
                => (pc[i] = "checked" /\ available[i])
          /\ (pc'[i] = "notify" /\ pc[i] # "notify") => pc[i] = "download"
          /\ (pc[i] = "download" /\ pc'[i] # "download") => pc'[i] = "notify"
          /\ (pc[i] = "notify" /\ pc'[i] # "notify") => pc'[i] = "select"
          /\ (pc[i] = "checked" /\ ~available[i] /\ pc'[i] # "checked")
                => pc'[i] = "select"
          /\ (pc'[i] = "select" /\ pc[i] # "select")
                => (pc[i] = "notify" \/ (pc[i] = "checked" /\ ~available[i]))
          /\ (pc'[i] = "sleep" /\ pc[i] # "sleep") => pc[i] = "select"
          /\ (pc'[i] = "check" /\ pc[i] # "check")
                => pc[i] \in {"warmup", "sleep"}]_vars

C12_Witness ==
    /\ pc[1] = "notify"
    /\ available[1]
    /\ err[1] = "write"

\* C13: the session only moves forward through Created, Running, Closing and
\* Destroyed; the quit signal is scheduled only once the window is destroyed;
\* and a close message that Quit() posted to a running pump leads to the pump
\* having returned, with the message handled, the window destroyed and the
\* quit signal scheduled, unless GetMessage failed before.
C13_QuitUnwindsThePump ==
    /\ [][StateRank[SessionState] <= StateRank[SessionState']]_vars
    /\ [](quitPosted => window = "destroyed")
    /\ (closePending > 0 /\ pump # "created")
          ~> \/ pump = "failed"
             \/ /\ pump = "exited"
                /\ closePending = 0
                /\ window = "destroyed"
                /\ quitPosted
                /\ ~registered

C13_Witness ==
    /\ pump = "exited"
    /\ closePosts = 1
    /\ closePending = 0
    /\ window = "destroyed"
    /\ quitPosted
    /\ nid = "deleted"

\* C14: the quit signal is scheduled only by the handling of a destroy
\* message, after its icon cleanup and with the mutex released; destroy and
\* end-session handling delete the icon with the mutex held; end-session
\* handling leaves the quit signal alone; and the pump returns only with the
\* quit signal scheduled by a destroy, or on a GetMessage error.
C14_OnlyDestroyPostsQuit ==
    [][/\ (quitPosted' /\ ~quitPosted)
             => /\ cur.message = WM_DESTROY
                /\ pump = "unlocked"
                /\ muNID # "pump"
       /\ (pump = "locked" /\ pump' = "cleaned"
              /\ cur.message \in {WM_DESTROY, WM_ENDSESSION})
             => /\ muNID = "pump"
                /\ nid' \in {nid, "deleted"}
                /\ (NidCleanup(TRUE, "error") /\ nid # "nil")
                      => nid' = "deleted"
       /\ (pump = "unlocked" /\ pump' # "unlocked"
              /\ cur.message = WM_ENDSESSION)
             => quitPosted' = quitPosted
       /\ (pump' = "exited" /\ pump # "exited")
             => (quitPosted /\ window = "destroyed")
       /\ (pump' = "failed" /\ pump # "failed") => pump = "getmsg"]_vars

C14_Witness ==
    /\ handled.message = WM_ENDSESSION
    /\ pump = "dispatched"
    /\ nid = "deleted"
    /\ muNID = "free"
    /\ ~quitPosted

\* C15: a notification click sends at most one signal, and only to the Update
\* channel when an update is pending as the message is handled, only to the
\* DoFirstUse channel otherwise; pointer movement, a button press and a
\* dismissed notification send nothing.
C15_NotificationRouting ==
    handled.message = wmSystrayMessage
        => /\ Cardinality(handled.sent) <= 1
           /\ ~handled.blocked
           /\ handled.lParam = NotificationClicked
                 => handled.sent \subseteq
                       {IF handled.pending THEN "Update" ELSE "DoFirstUse"}
           /\ handled.lParam \in {WM_MOUSEMOVE, WM_LBUTTONDOWN,
                                  NotificationDismissed}
                 => handled.sent = {}

C15_Witness ==
    /\ handled.message = wmSystrayMessage
    /\ handled.lParam = NotificationClicked
    /\ handled.pending
    /\ handled.ready = Chans
    /\ handled.sent = {"Update"}

\* C16: the pump thread is between its Lock and its Unlock of t.muNID exactly
\* when it holds the mutex, so it never touches t.nid while another caller
\* holds it; t.nid changes only in a step of the holder; and a handler that
\* has returned has released the mutex.
C16_NidUnderMutex ==
    /\ [](/\ pump \in {"locked", "cleaned"} <=> muNID = "pump"
          /\ pump \in {"unlocked", "dispatched", "getmsg", "exited", "failed"}
                => muNID # "pump")
    /\ [][nid' # nid => (pump = "locked" /\ muNID = "pump" /\ muNID' = "pump")]_vars

C16_Witness ==
    /\ pump = "lock"
    /\ cur.message = wmTaskbarCreated
    /\ muNID = "async"
    /\ nid = "deleted"

\* C17: a call of DownloadNewRelease that gets to look at the staging path
\* issues the GET exactly when os.Stat finds no file there, and no call issues
\* it otherwise; a file that a failed earlier call left partly written is
\* taken for a complete download: no error, no GET, the file as it was, and
\* UpdateDownloaded set.
C17_ExistenceIsTheDedupKey ==
    \A i \in Scheds :
        pc[i] = "notify"
            => /\ dl[i].httpGets = 1 <=> dl[i].stat = "notexist"
               /\ dl[i].httpGets = 1 => dl[i].before = NoFile
               /\ (dl[i].stat = "ok" /\ dl[i].before = "partial")
                     => /\ err[i] = "nil"
                        /\ dl[i].httpGets = 0
                        /\ dl[i].after = "partial"
                        /\ UpdateDownloaded

C17_Witness ==
    /\ pc[1] = "notify"
    /\ dl[1].stat = "ok"
    /\ dl[1].before = "partial"
    /\ err[1] = "nil"
    /\ UpdateDownloaded

\* C18: once the context is done the loop starts no check, no download and no
\* notify; a loop started on a cancelled context does none of them.
C18_NoWorkAfterCancellation ==
    [][\A i \in Scheds :
          (ctxDone[i] /\ pc'[i] # pc[i])
              => pc'[i] \notin {"check", "download", "notify"}]_vars

\* C18, as the code has it: the loop acts on the context only at the select
\* that ends an iteration. With the context done it leaves the select for
\* the exit and never for the sleep, so it starts no iteration after that
\* select; up to there it goes on as without cancellation, and a loop that is
\* cancelled before its first check or during the sleep still runs one
\* iteration.
C18_StopsAtTheNextSelect ==
    [][\A i \in Scheds :
          /\ (ctxDone[i] /\ pc[i] = "select" /\ pc'[i] # "select")
                => pc'[i] = "exited"
          /\ (ctxDone[i] /\ pc'[i] = "sleep") => pc[i] = "sleep"
          /\ (ctxDone[i] /\ pc[i] \in {"warmup", "sleep"}
                 /\ pc'[i] # pc[i]) => pc'[i] = "check"
          /\ pc[i] = "exited" => pc'[i] = "exited"]_vars

C18_Witness ==
    /\ ctxDone[1]
    /\ pc[1] = "exited"
    /\ UpdateDownloaded
    /\ hadFailure[1]

\* C19: once the icon is deleted no later message registers it again.
C19_CleanupIsFinal ==
    [][nid = "deleted" => nid' # "added"]_vars

\* C19, as the code has it: the icon is registered again only by the handling
\* of a taskbar-recreated message, under the mutex, which can follow an
\* end-session message; after the handling of a destroy message t.nid never
\* changes again; a nil t.nid is never deleted or added; and handling a
\* taskbar-recreated message with a non-nil t.nid goes on to the Unlock, while
\* with a nil t.nid it calls add() on the nil descriptor, the one place where
\* the process can abort.
C19_ReAddOnlyOnTaskbarCreated ==
    [][/\ (nid' = "added" /\ nid # "added")
             => /\ nid = "deleted"
                /\ cur.message = wmTaskbarCreated
                /\ pump = "locked"
                /\ muNID = "pump"
                /\ window = "alive"
       /\ quitPosted => nid' = nid
       /\ nid = "nil" => nid' = "nil"
       /\ (pump = "locked" /\ cur.message = wmTaskbarCreated /\ nid # "nil"
              /\ pump' # pump)
             => (pump' = "cleaned" /\ muNID' = "pump" /\ ~crashed')
       /\ (crashed' /\ ~crashed)
             => (nid = "nil" /\ cur.message = wmTaskbarCreated
                   /\ pump = "locked")]_vars

C19_Witness ==
    /\ pump = "locked"
    /\ muNID = "pump"
    /\ cur.message = wmTaskbarCreated
    /\ nid = "deleted"
    /\ window = "alive"

\* C20: a DoUpgrade that is called with UpdateDownloaded set, the staging
\* directory being as the downloads left it, does not fail for want of the
\* installer.
C20_StagedMeansLaunchable ==
    [][(UpdateDownloaded /\ embPc = "idle" /\ embPc' # "idle")
          => up'.err # "locate"]_vars

=============================================================================
